---- MODULE Spec2Model ----
(***************************************************************************)
(* Rustpdater: a daemon that polls git checkouts, fast-forwards them to    *)
(* the fetched commit and runs an on_change hook.                          *)
(*                                                                         *)
(* The model follows src/src/daemon/watcher.rs: start_watching_repos       *)
(* spawns one task per repository, watch_single_repo loops over            *)
(* try_update and a sleep, try_update opens the repository, fetches,       *)
(* compares FETCH_HEAD with HEAD, detaches HEAD at the fetched commit,     *)
(* force-checks-out the working tree and runs the hook.  Every `?` of      *)
(* try_update is a step that may fail; what libgit2, the network and the   *)
(* shell answer is chosen nondeterministically.                            *)
(***************************************************************************)
EXTENDS Integers, Sequences, FiniteSets, TLC

\* ---------------------------------------------------------------- bounds
MaxCommit == 3
MaxCycles == 2
MaxPushes == 1
MaxLines == 2

\* ------------------------------------------------------- program constants
default_interval == 300

\* ----------------------------------------------------------- the universe
Repos == {"A", "B"}
RepoList == <<"A", "B">>
Commits == 1..MaxCommit
Intervals == {1, default_interval}
NoHook == "none"
HookCmd == "cmd"
ExitCodes == {0, 1}

\* Commit graph of the remote: 1 is the root, 2 and 3 are both children of 1
\* (3 is what a history rewrite of 2 produces), 4 is a child of 3, ...
Parent(c) == IF c = 1 THEN 0 ELSE IF c % 2 = 0 THEN c - 1 ELSE c - 2

\* The commit every checkout and its remote are at when the daemon starts:
\* a child of the root, so that the remote can move to a descendant, to an
\* ancestor or to a sibling of it.
StartCommit == Parent(3) + 1

RECURSIVE IsAncestor(_, _)
IsAncestor(a, b) ==
    IF b = 0 THEN FALSE
    ELSE IF a = b THEN TRUE
    ELSE IsAncestor(a, Parent(b))

VARIABLES
    cfg,        \* RepoCfg of each repository: path usable, interval, on_change
    spawned,    \* number of tasks start_watching_repos has spawned
    exited,     \* the process has called std::process::exit(1)
    pc,         \* position of each repository's watch_single_repo task
    interval,   \* the local `interval` of watch_single_repo
    remote,     \* tip of the watched branch on origin
    head,       \* commit HEAD resolves to in the checkout
    detached,   \* HEAD points directly at a commit
    branchTip,  \* refs/heads/<branch> of the checkout
    worktree,   \* commit whose content the working tree holds
    fetchHead,  \* FETCH_HEAD of the checkout (0: none yet)
    fetch_head, \* the local `fetch_head` of try_update
    local_head, \* the local `local_head` of try_update
    hookRunning,\* the hook subprocess of the checkout is running
    cycles,     \* cycles started by the supervisor
    sleeps,     \* sleeps started by the supervisor
    lastSleep,  \* duration of the last sleep
    pushes,     \* pushes to the remotes so far
    cyc,        \* what happened in the current (or last) cycle
    main,       \* main(): position, state of the config file, exit code
    hist,       \* per repository: advances of the remote, hooks started
    cr          \* one run of the credentials callback: inputs, position, result

vars == <<cr, cfg, spawned, exited, pc, interval, remote, head, detached,
          branchTip, worktree, fetchHead, fetch_head, local_head,
          hookRunning, cycles, sleeps, lastSleep, pushes, cyc, main, hist, cr>>

\* ------------------------------------------------ text, as character lists
\* str::trim_start / trim_end / trim, for the blank " ".
RECURSIVE TrimStart(_)
TrimStart(s) ==
    IF s = <<>> THEN s
    ELSE IF Head(s) = " " THEN TrimStart(Tail(s)) ELSE s

RECURSIVE TrimEnd(_)
TrimEnd(s) ==
    IF s = <<>> THEN s
    ELSE IF s[Len(s)] = " " THEN TrimEnd(SubSeq(s, 1, Len(s) - 1)) ELSE s

Trim(s) == TrimEnd(TrimStart(s))

\* str::starts_with
StartsWith(s, p) == Len(s) >= Len(p) /\ SubSeq(s, 1, Len(p)) = p

\* str::find: index of the first occurrence of p in s, 0 when there is none.
Find(s, p) ==
    LET hits == {i \in 1..(Len(s) - Len(p) + 1) : SubSeq(s, i, i + Len(p) - 1) = p}
    IN  IF hits = {} THEN 0 ELSE CHOOSE i \in hits : \A j \in hits : i <= j

\* Option<T> as a set with at most one element; Option::unwrap_or.
None == {}
Some(x) == {x}
UnwrapOr(o, x) == IF o = {} THEN x ELSE CHOOSE v \in o : TRUE

SchemeSep == <<":", "/", "/">>

\* line.split("://").nth(1): the text between the first "://" and the next
\* one (or the end of the line); None when the line has no "://".
SplitNth1(line) ==
    LET i == Find(line, SchemeSep) IN
    IF i = 0 THEN None
    ELSE LET rest == SubSeq(line, i + 3, Len(line))
             j == Find(rest, SchemeSep)
         IN  Some(IF j = 0 THEN rest ELSE SubSeq(rest, 1, j - 1))

\* parse_git_credential_line: username and password are what stands before
\* and after the first ':' of the text before the first '@'.
parse_git_credential_line(line) ==
    LET part == SplitNth1(line) IN
    IF part = None THEN None
    ELSE LET auth_part == UnwrapOr(part, <<>>)
             at_pos == Find(auth_part, <<"@">>)
         IN  IF at_pos = 0 THEN None
             ELSE LET auth == SubSeq(auth_part, 1, at_pos - 1)
                      colon_pos == Find(auth, <<":">>)
                  IN  IF colon_pos = 0 THEN None
                      ELSE Some([username |-> SubSeq(auth, 1, colon_pos - 1),
                                 password |-> SubSeq(auth, colon_pos + 1, Len(auth))])

\* The loop of read_git_credentials over content.lines(), from line i on:
\* trim, skip empty and '#' lines, return the first line that parses.
RECURSIVE FirstCredentials(_, _)
FirstCredentials(lines, i) ==
    IF i > Len(lines) THEN None
    ELSE LET line == Trim(lines[i]) IN
         IF line = <<>> \/ StartsWith(line, <<"#">>)
           THEN FirstCredentials(lines, i + 1)
           ELSE LET c == parse_git_credential_line(line) IN
                IF c # None THEN c ELSE FirstCredentials(lines, i + 1)

\* The credentials file: absent, present but unreadable, or its lines.
Missing == [state |-> "missing", lines |-> <<>>]
Unreadable == [state |-> "unreadable", lines |-> <<>>]
File(ls) == [state |-> "file", lines |-> ls]

\* read_git_credentials: Err(FileNotFound), Err(ReadError), Ok(None), Ok(Some).
read_git_credentials(store) ==
    IF store.state = "missing" THEN [kind |-> "FileNotFound", cred |-> None]
    ELSE IF store.state = "unreadable" THEN [kind |-> "ReadError", cred |-> None]
    ELSE LET c == FirstCredentials(store.lines, 1) IN
         IF c = None THEN [kind |-> "None", cred |-> None]
         ELSE [kind |-> "Some", cred |-> c]

\* ------------------------------------------------- inputs of the callback
Ln(user, pw, host) == <<"s">> \o SchemeSep \o user \o <<":">> \o pw \o <<"@">> \o host

HostG == <<"g">>
HostH == <<"h">>
LineA == Ln(<<"a">>, <<"x">>, HostG)
LineB == Ln(<<"b">>, <<"y">>, HostH)

SampleLines ==
    { LineA, LineB,
      <<"#">> \o LineB,                      \* a comment
      <<>>,                                  \* an empty line
      <<" ">> \o LineB \o <<" ">>,           \* blanks around a valid line
      <<"s">> \o SchemeSep \o <<"a", "@">> \o HostG,   \* no ':' before the '@'
      <<"a", ":", "x", "@">> \o HostG }      \* no "://"

RECURSIVE SeqsUpTo(_, _)
SeqsUpTo(S, n) ==
    IF n = 0 THEN {<<>>}
    ELSE LET shorter == SeqsUpTo(S, n - 1)
         IN  shorter \cup {Append(q, x) : q \in {t \in shorter : Len(t) = n - 1}, x \in S}

Stores == {Missing, Unreadable} \cup {File(ls) : ls \in SeqsUpTo(SampleLines, MaxLines)}

\* Remote URLs with the username libgit2 hands to the callback and the host.
GitUser == <<"g", "i", "t">>
Urls ==
    { [text |-> GitUser \o <<"@">> \o HostG \o <<":", "r">>,
       username_from_url |-> Some(GitUser), host |-> HostG],
      [text |-> <<"s", "s", "h">> \o SchemeSep \o HostH \o <<"/", "r">>,
       username_from_url |-> None, host |-> HostH],
      [text |-> <<"h", "t", "t", "p", "s">> \o SchemeSep \o HostH \o <<"/", "r">>,
       username_from_url |-> None, host |-> HostH],
      [text |-> <<"h", "t", "t", "p", "s">> \o SchemeSep \o <<"u", "@">> \o HostG \o <<"/", "r">>,
       username_from_url |-> Some(<<"u">>), host |-> HostG] }

\* The default key files id_rsa, id_ed25519, id_ecdsa, in the order tried.
KeyPaths == 1..3
KeyStates == {"absent", "unusable", "ok"}
NoKeys == [k \in KeyPaths |-> "absent"]

\* What the user does at the prompt of prompt_and_create_credentials, and
\* whether the file system plays along.
Prompts == {"declined", "empty_user", "empty_token", "accepted",
            "write_failed", "chmod_failed"}
TypedUser == <<"n">>
TypedToken == <<"t">>

\* The two credentials callbacks of the repository.
Variants == {"watcher", "git_ops"}

NoResult == [ok |-> FALSE, kind |-> "none", username |-> <<>>, password |-> <<>>,
             key |-> 0, msg |-> "none"]

CredRun(v, u, a, k, st, p) ==
    [pc |-> "ready", variant |-> v, url |-> u, agent |-> a, keys |-> k,
     store0 |-> st, store |-> st, prompt |-> p, prompted |-> FALSE,
     result |-> NoResult]

\* No callback is running.
CredIdle ==
    [pc |-> "idle", variant |-> "watcher",
     url |-> [text |-> <<>>, username_from_url |-> None, host |-> <<>>],
     agent |-> FALSE, keys |-> NoKeys, store0 |-> Missing, store |-> Missing,
     prompt |-> "declined", prompted |-> FALSE, result |-> NoResult]

\* The callback of watcher.rs reads neither agent, keys nor prompt.
CredStart(c) ==
    \E u \in Urls, st \in Stores :
        \/ c = CredRun("watcher", u, FALSE, NoKeys, st, "declined")
        \/ \E a \in BOOLEAN, k \in [KeyPaths -> KeyStates], p \in Prompts :
               c = CredRun("git_ops", u, a, k, st, p)

NewCycle(h, w) ==
    [startHead |-> h, startTree |-> w, fetched |-> "none", cmp |-> "none",
     setHead |-> "none", checkout |-> "none", hook |-> "none",
     exit |-> -1, err |-> "none"]

\* What Config::load_config finds at the path given on the command line.
ConfigFiles == {"ok", "missing", "malformed"}

RepoCfg == [pathOk : BOOLEAN, interval : Intervals, on_change : {NoHook, HookCmd}]

\* The entries a configuration file is made of here: a checkout polled every
\* second with a hook, one with the default interval and no hook, and an
\* entry whose path is no git checkout.
SampleCfgs ==
    { [pathOk |-> TRUE, interval |-> 1, on_change |-> HookCmd],
      [pathOk |-> TRUE, interval |-> default_interval, on_change |-> NoHook],
      [pathOk |-> FALSE, interval |-> 1, on_change |-> NoHook] }

\* The state of the daemon when main begins.
DaemonInit ==
    /\ cfg \in [Repos -> SampleCfgs]
    /\ spawned = 0
    /\ exited = FALSE
    /\ pc = [r \in Repos |-> "unspawned"]
    /\ interval = [r \in Repos |-> 0]
    /\ remote = [r \in Repos |-> StartCommit]
    /\ head = [r \in Repos |-> StartCommit]
    /\ detached = [r \in Repos |-> FALSE]
    /\ branchTip = [r \in Repos |-> StartCommit]
    /\ worktree = [r \in Repos |-> StartCommit]
    /\ fetchHead = [r \in Repos |-> 0]
    /\ fetch_head = [r \in Repos |-> 0]
    /\ local_head = [r \in Repos |-> 0]
    /\ hookRunning = [r \in Repos |-> FALSE]
    /\ cycles = [r \in Repos |-> 0]
    /\ sleeps = [r \in Repos |-> 0]
    /\ lastSleep = [r \in Repos |-> 0]
    /\ pushes = 0
    /\ cyc = [r \in Repos |-> NewCycle(StartCommit, StartCommit)]
    /\ \E f \in ConfigFiles :
         main = [pc |-> "load", cfgFile |-> f, exitCode |-> -1, cutShort |-> {}]
    /\ hist = [r \in Repos |-> [advances |-> 0, hooks |-> 0]]

Init ==
    /\ DaemonInit
    /\ cr = CredIdle

\* ------------------------------------------------------------ main, run
\* A load error is not propagated: run goes on to start the watcher.
AfterLoadFailure_Ignored == "watch"

\* let config = Config::load_config(..)? in run; main answers the Err with
\* error!(...) and std::process::exit(1).
AfterLoadFailure == "exit"

\* Config::load_config: read_to_string(path) and toml::from_str.  Nothing
\* but the file's presence and syntax is looked at; no path of an entry is
\* opened here.
LoadConfig ==
    /\ ~exited
    /\ main.pc = "load"
    /\ IF main.cfgFile = "ok"
         THEN /\ main' = [main EXCEPT !.pc = "watch"]
              /\ UNCHANGED exited
         ELSE IF AfterLoadFailure = "exit"
         THEN /\ main' = [main EXCEPT !.pc = "exit", !.exitCode = 1]
              /\ exited' = TRUE
         ELSE /\ main' = [main EXCEPT !.pc = AfterLoadFailure]
              /\ UNCHANGED exited
    /\ UNCHANGED <<hist, cr, cfg, spawned, pc, interval, remote, head, detached,
                   branchTip, worktree, fetchHead, fetch_head, local_head,
                   hookRunning, cycles, sleeps, lastSleep, pushes, cyc>>

\* Positions of a task between the call of try_update and its return.
MidCycle == {"open", "fetch", "get_heads", "set_head", "checkout", "hook",
             "hook_wait"}

\* Exit status of a process ended by SIGTERM, as the shell reports it.
SignalExit == 128 + 15

\* A termination signal (SIGINT, SIGTERM) arrives.  Neither main nor the
\* watcher installs a handler, so the default disposition ends the process
\* where it stands: every task is killed, a cycle in flight is cut short.
Shutdown ==
    /\ ~exited
    /\ exited' = TRUE
    /\ main' = [main EXCEPT !.pc = "exit", !.exitCode = SignalExit,
                            !.cutShort = {r \in Repos : pc[r] \in MidCycle}]
    /\ pc' = [r \in Repos |-> "killed"]
    /\ UNCHANGED <<hist, cr, cfg, spawned, interval, remote, head, detached,
                   branchTip, worktree, fetchHead, fetch_head, local_head,
                   hookRunning, cycles, sleeps, lastSleep, pushes, cyc>>

\* ------------------------------------------------- start_watching_repos
\* for repo in repos { tasks.push(task::spawn(watch_single_repo(&repo))) }
\* The joins that follow never complete: no task ever returns.
Spawn ==
    /\ ~exited
    /\ main.pc = "watch"
    /\ spawned < Len(RepoList)
    /\ spawned' = spawned + 1
    /\ pc' = [pc EXCEPT ![RepoList[spawned + 1]] = "start"]
    /\ UNCHANGED <<main, hist, cr, cfg, exited, interval, remote, head, detached, branchTip,
                   worktree, fetchHead, fetch_head, local_head, hookRunning,
                   cycles, sleeps, lastSleep, pushes, cyc>>

\* ---------------------------------------------------- watch_single_repo
\* let interval = Duration::from_secs(repo.interval);
WatchSingleRepo(r) ==
    /\ ~exited
    /\ pc[r] = "start"
    /\ interval' = [interval EXCEPT ![r] = cfg[r].interval]
    /\ pc' = [pc EXCEPT ![r] = "update"]
    /\ UNCHANGED <<main, hist, cr, cfg, spawned, exited, remote, head, detached, branchTip,
                   worktree, fetchHead, fetch_head, local_head, hookRunning,
                   cycles, sleeps, lastSleep, pushes, cyc>>

\* loop { if let Err(error) = try_update(repo) ...: the call of try_update.
BeginUpdate(r) ==
    /\ ~exited
    /\ pc[r] = "update"
    /\ cycles[r] < MaxCycles
    /\ cycles' = [cycles EXCEPT ![r] = @ + 1]
    /\ cyc' = [cyc EXCEPT ![r] = NewCycle(head[r], worktree[r])]
    /\ pc' = [pc EXCEPT ![r] = "open"]
    /\ UNCHANGED <<main, hist, cr, cfg, spawned, exited, interval, remote, head, detached,
                   branchTip, worktree, fetchHead, fetch_head, local_head,
                   hookRunning, sleeps, lastSleep, pushes>>

\* What the supervisor does with Err(error): error!(...); std::process::exit(1).
\* The whole process ends: the task that called exit is at "exit", every
\* other task, spawned or not, is killed where it stands.
OnUpdateError(r) ==
    /\ exited' = TRUE
    /\ pc' = [s \in Repos |-> IF s = r THEN "exit" ELSE "killed"]
    /\ main' = [main EXCEPT !.pc = "exit", !.exitCode = 1]
    /\ UNCHANGED <<sleeps, lastSleep>>

\* A sleep of the default interval, whatever the RepoCfg says.
SleepDuration_Default(r) == default_interval

\* time::sleep(interval)
SleepDuration(r) == interval[r]

OnUpdateOk(r) ==
    /\ pc' = [pc EXCEPT ![r] = "sleep"]
    /\ sleeps' = [sleeps EXCEPT ![r] = @ + 1]
    /\ lastSleep' = [lastSleep EXCEPT ![r] = SleepDuration(r)]
    /\ UNCHANGED exited

HandleErr(r) ==
    /\ ~exited
    /\ pc[r] = "ret_err"
    /\ OnUpdateError(r)
    /\ UNCHANGED <<hist, cr, cfg, spawned, interval, remote, head, detached, branchTip,
                   worktree, fetchHead, fetch_head, local_head, hookRunning,
                   cycles, pushes, cyc>>

HandleOk(r) ==
    /\ ~exited
    /\ pc[r] = "ret_ok"
    /\ OnUpdateOk(r)
    /\ UNCHANGED <<main, hist, cr, cfg, spawned, interval, remote, head, detached, branchTip,
                   worktree, fetchHead, fetch_head, local_head, hookRunning,
                   cycles, pushes, cyc>>

\* The sleep is over: back to the top of the loop.
Wake(r) ==
    /\ ~exited
    /\ pc[r] = "sleep"
    /\ pc' = [pc EXCEPT ![r] = "update"]
    /\ UNCHANGED <<main, hist, cr, cfg, spawned, exited, interval, remote, head, detached,
                   branchTip, worktree, fetchHead, fetch_head, local_head,
                   hookRunning, cycles, sleeps, lastSleep, pushes, cyc>>

\* ------------------------------------------------------------ try_update
\* Repository::open(&repo.path)?; repository.find_remote("origin")?
Open(r) ==
    /\ ~exited
    /\ pc[r] = "open"
    /\ IF cfg[r].pathOk
         THEN /\ pc' = [pc EXCEPT ![r] = "fetch"]
              /\ UNCHANGED cyc
         ELSE /\ pc' = [pc EXCEPT ![r] = "ret_err"]
              /\ cyc' = [cyc EXCEPT ![r].err = "RepositoryStateError"]
    /\ UNCHANGED <<main, hist, cr, cfg, spawned, exited, interval, remote, head, detached,
                   branchTip, worktree, fetchHead, fetch_head, local_head,
                   hookRunning, cycles, sleeps, lastSleep, pushes>>

\* remote.fetch(&[&repo.branch], ...) succeeded: FETCH_HEAD is the remote tip.
FetchOk(r) ==
    /\ ~exited
    /\ pc[r] = "fetch"
    /\ fetchHead' = [fetchHead EXCEPT ![r] = remote[r]]
    /\ cyc' = [cyc EXCEPT ![r].fetched = "ok"]
    /\ pc' = [pc EXCEPT ![r] = "get_heads"]
    /\ UNCHANGED <<main, hist, cr, cfg, spawned, exited, interval, remote, head, detached,
                   branchTip, worktree, fetch_head, local_head, hookRunning,
                   cycles, sleeps, lastSleep, pushes>>

\* The fetch error is dropped and try_update goes on to read the heads.
AfterFetchFailure_Ignored == "get_heads"

\* remote.fetch(...)? : the error leaves try_update at once.
AfterFetchFailure == "ret_err"

FetchErrors == {"FetchError", "AuthError"}

\* remote.fetch failed: network or protocol error, or the credentials
\* callback returned an error.
FetchFail(r) ==
    /\ ~exited
    /\ pc[r] = "fetch"
    /\ \E e \in FetchErrors :
         cyc' = [cyc EXCEPT ![r].fetched = "failed", ![r].err = e]
    /\ pc' = [pc EXCEPT ![r] = AfterFetchFailure]
    /\ UNCHANGED <<main, hist, cr, cfg, spawned, exited, interval, remote, head, detached,
                   branchTip, worktree, fetchHead, fetch_head, local_head,
                   hookRunning, cycles, sleeps, lastSleep, pushes>>

\* The early return is gone: every cycle resets and runs the hook.
NothingNew_Never(fh, lh) == FALSE

\* The comparison the wrong way round.
NothingNew_Inverted(fh, lh) == fh # lh

\* A fast-forward that is refused unless the fetched commit descends from HEAD.
NothingNew_AncestryChecked(fh, lh) == fh = lh \/ ~IsAncestor(lh, fh)

\* if fetch_head == local_head { return Ok(()) }
NothingNew(fh, lh) == fh = lh

\* The commit refs/heads/<branch> points at, not the one HEAD resolves to.
LocalHead_BranchRef(r) == branchTip[r]

\* repository.head()?.target(): the commit HEAD resolves to.
LocalHead(r) == head[r]

\* find_reference("FETCH_HEAD")?, repository.head()? and the comparison.
GetHeads(r) ==
    /\ ~exited
    /\ pc[r] = "get_heads"
    /\ \E ok \in BOOLEAN :
         IF ok /\ fetchHead[r] # 0
           THEN /\ fetch_head' = [fetch_head EXCEPT ![r] = fetchHead[r]]
                /\ local_head' = [local_head EXCEPT ![r] = LocalHead(r)]
                /\ IF NothingNew(fetchHead[r], LocalHead(r))
                     THEN /\ pc' = [pc EXCEPT ![r] = "ret_ok"]
                          /\ cyc' = [cyc EXCEPT ![r].cmp = "eq"]
                     ELSE /\ pc' = [pc EXCEPT ![r] = "set_head"]
                          /\ cyc' = [cyc EXCEPT ![r].cmp = "neq"]
           ELSE /\ pc' = [pc EXCEPT ![r] = "ret_err"]
                /\ cyc' = [cyc EXCEPT ![r].err = "RefError"]
                /\ UNCHANGED <<fetch_head, local_head>>
    /\ UNCHANGED <<main, hist, cr, cfg, spawned, exited, interval, remote, head, detached,
                   branchTip, worktree, fetchHead, hookRunning, cycles,
                   sleeps, lastSleep, pushes>>

\* The set_head_detached error is dropped and try_update goes on to the checkout.
AfterSetHeadFailure_Ignored == "checkout"

\* repository.set_head_detached(fetch_head)? : the error leaves try_update.
AfterSetHeadFailure == "ret_err"

\* repository.set_head_detached(fetch_head)?: HEAD now points directly at
\* the fetched commit; refs/heads/<branch> is not written.
SetHeadDetached(r) ==
    /\ ~exited
    /\ pc[r] = "set_head"
    /\ \/ /\ head' = [head EXCEPT ![r] = fetch_head[r]]
          /\ detached' = [detached EXCEPT ![r] = TRUE]
          /\ cyc' = [cyc EXCEPT ![r].setHead = "ok"]
          /\ pc' = [pc EXCEPT ![r] = "checkout"]
       \/ /\ cyc' = [cyc EXCEPT ![r].setHead = "failed", ![r].err = "SetHeadError"]
          /\ pc' = [pc EXCEPT ![r] = AfterSetHeadFailure]
          /\ UNCHANGED <<head, detached>>
    /\ UNCHANGED <<main, hist, cr, cfg, spawned, exited, interval, remote, branchTip,
                   worktree, fetchHead, fetch_head, local_head, hookRunning,
                   cycles, sleeps, lastSleep, pushes>>

\* The checkout error is dropped and try_update goes on to the hook.
AfterCheckoutFailure_Ignored == "hook"

\* repository.checkout_head(...force())? : the error leaves try_update.
AfterCheckoutFailure == "ret_err"

\* checkout_head(Some(CheckoutBuilder::default().force()))
CheckoutHead(r) ==
    /\ ~exited
    /\ pc[r] = "checkout"
    /\ \/ /\ worktree' = [worktree EXCEPT ![r] = head[r]]
          /\ cyc' = [cyc EXCEPT ![r].checkout = "ok"]
          /\ pc' = [pc EXCEPT ![r] = "hook"]
       \/ /\ cyc' = [cyc EXCEPT ![r].checkout = "failed", ![r].err = "CheckoutError"]
          /\ pc' = [pc EXCEPT ![r] = AfterCheckoutFailure]
          /\ UNCHANGED worktree
    /\ UNCHANGED <<main, hist, cr, cfg, spawned, exited, interval, remote, head, detached,
                   branchTip, fetchHead, fetch_head, local_head, hookRunning,
                   cycles, sleeps, lastSleep, pushes>>

\* if let Some(cmd) = &repo.on_change: no hook configured, Ok(()).
NoHookConfigured(r) ==
    /\ ~exited
    /\ pc[r] = "hook"
    /\ cfg[r].on_change = NoHook
    /\ pc' = [pc EXCEPT ![r] = "ret_ok"]
    /\ UNCHANGED <<main, hist, cr, cfg, spawned, exited, interval, remote, head, detached,
                   branchTip, worktree, fetchHead, fetch_head, local_head,
                   hookRunning, cycles, sleeps, lastSleep, pushes, cyc>>

\* Command::spawn() instead of status(): try_update does not wait.
AfterSpawn_NoWait == "ret_ok"

\* Command::status() waits for the child before try_update goes on.
AfterSpawn == "hook_wait"

\* Command::new("sh").arg("-c").arg(cmd).current_dir(..).status(): the
\* shell was launched.
HookSpawn(r) ==
    /\ ~exited
    /\ pc[r] = "hook"
    /\ cfg[r].on_change # NoHook
    /\ hookRunning' = [hookRunning EXCEPT ![r] = TRUE]
    /\ cyc' = [cyc EXCEPT ![r].hook = "started"]
    /\ pc' = [pc EXCEPT ![r] = AfterSpawn]
    /\ hist' = [hist EXCEPT ![r].hooks = @ + 1]
    /\ UNCHANGED <<main, cr, cfg, spawned, exited, interval, remote, head, detached,
                   branchTip, worktree, fetchHead, fetch_head, local_head,
                   cycles, sleeps, lastSleep, pushes>>

\* .status()? : the shell could not be launched, the io::Error is returned.
HookSpawnFail(r) ==
    /\ ~exited
    /\ pc[r] = "hook"
    /\ cfg[r].on_change # NoHook
    /\ cyc' = [cyc EXCEPT ![r].hook = "spawn_failed", ![r].err = "HookSpawnError"]
    /\ pc' = [pc EXCEPT ![r] = "ret_err"]
    /\ UNCHANGED <<main, hist, cr, cfg, spawned, exited, interval, remote, head, detached,
                   branchTip, worktree, fetchHead, fetch_head, local_head,
                   hookRunning, cycles, sleeps, lastSleep, pushes>>

\* The hook subprocess ends with an exit status.
HookExit(r) ==
    /\ ~exited
    /\ hookRunning[r]
    /\ hookRunning' = [hookRunning EXCEPT ![r] = FALSE]
    /\ \E code \in ExitCodes : cyc' = [cyc EXCEPT ![r].exit = code]
    /\ UNCHANGED <<main, hist, cr, cfg, spawned, exited, pc, interval, remote, head, detached,
                   branchTip, worktree, fetchHead, fetch_head, local_head,
                   cycles, sleeps, lastSleep, pushes>>

\* A non-zero exit status turned into an error.
HookResult_Checked(status) == IF status = 0 THEN "ret_ok" ELSE "ret_err"

\* .status()?; ... Ok(()): the ExitStatus is dropped.
HookResult(status) == "ret_ok"

\* status() returns once the child has ended.
HookWait(r) ==
    /\ ~exited
    /\ pc[r] = "hook_wait"
    /\ ~hookRunning[r]
    /\ pc' = [pc EXCEPT ![r] = HookResult(cyc[r].exit)]
    /\ UNCHANGED <<main, hist, cr, cfg, spawned, exited, interval, remote, head, detached,
                   branchTip, worktree, fetchHead, fetch_head, local_head,
                   hookRunning, cycles, sleeps, lastSleep, pushes, cyc>>

\* ------------------------------------------------------------ environment
\* Somebody pushes to origin: the branch tip moves to any other commit, a
\* descendant of the old tip or not (a history rewrite).
RemotePush(r) ==
    /\ ~exited
    /\ pushes < MaxPushes
    /\ \E c \in Commits \ {remote[r]} : remote' = [remote EXCEPT ![r] = c]
    /\ pushes' = pushes + 1
    /\ hist' = [hist EXCEPT ![r].advances = @ + 1]
    /\ UNCHANGED <<main, cr, cfg, spawned, exited, pc, interval, head, detached,
                   branchTip, worktree, fetchHead, fetch_head, local_head,
                   hookRunning, cycles, sleeps, lastSleep, cyc>>

Next ==
    \/ LoadConfig
    \/ Shutdown
    \/ Spawn
    \/ \E r \in Repos :
         \/ WatchSingleRepo(r)
         \/ BeginUpdate(r)
         \/ Open(r)
         \/ FetchOk(r)
         \/ FetchFail(r)
         \/ GetHeads(r)
         \/ SetHeadDetached(r)
         \/ CheckoutHead(r)
         \/ NoHookConfigured(r)
         \/ HookSpawn(r)
         \/ HookSpawnFail(r)
         \/ HookExit(r)
         \/ HookWait(r)
         \/ HandleOk(r)
         \/ HandleErr(r)
         \/ Wake(r)
         \/ RemotePush(r)

Spec == Init /\ [][Next]_vars

\* ------------------------------------------------------------- vocabulary
\* try_update has returned and the supervisor has not yet looked at the result.
Returned(r) == pc[r] \in {"ret_ok", "ret_err"}

\* The cycle got as far as comparing FETCH_HEAD with HEAD.
Compared(r) == cyc[r].cmp # "none"

\* Errors a later cycle may not meet again.
TransientErrors == FetchErrors \cup {"HookSpawnError"}

\* ------------------------------------------------------------------- C1
\* C1: a sync cycle that fails with a transient error (fetch, auth, hook)
\* does not end the supervisor loop: the step the supervisor takes after
\* such a cycle is the sleep, and the process is still running.
C1_TransientFailureKeepsLooping ==
    [][\A r \in Repos :
         (pc[r] = "ret_err" /\ cyc[r].err \in TransientErrors /\ pc'[r] # pc[r])
            => (pc'[r] = "sleep" /\ ~exited')]_vars

\* ------------------------------------------------------------------- C2
\* C2: supervisors are isolated: when the supervisor of one repository has
\* terminated, no other repository's supervisor has been stopped by it.
C2_SupervisorsIsolated ==
    \A r \in Repos : pc[r] = "exit" => \A s \in Repos \ {r} : pc[s] # "killed"

\* ------------------------------------------------------------------- C3
\* C3: in a cycle where FETCH_HEAD equals HEAD after the fetch, try_update
\* returns Ok with no change: HEAD is not reset, the working tree is not
\* checked out and no hook is started.
C3_NoChangeWhenEqual ==
    \A r \in Repos :
        (Compared(r) /\ fetch_head[r] = local_head[r]) =>
            /\ pc[r] \in {"ret_ok", "sleep", "update", "killed"}
            /\ head[r] = cyc[r].startHead
            /\ worktree[r] = cyc[r].startTree
            /\ cyc[r].setHead = "none"
            /\ cyc[r].checkout = "none"
            /\ cyc[r].hook = "none"
            /\ ~hookRunning[r]

C3_Witness ==
    \E r \in Repos :
        /\ pc[r] = "ret_ok"
        /\ Compared(r)
        /\ fetch_head[r] = local_head[r]
        /\ cfg[r].on_change = HookCmd
        /\ cycles[r] = 2

MovedHead(r) == head[r] # cyc[r].startHead

C6_FetchFailureFrame ==
    \A r \in Repos :
        cyc[r].fetched = "failed" =>
            /\ pc[r] \in {"ret_err", "exit", "killed"}
            /\ head[r] = cyc[r].startHead
            /\ worktree[r] = cyc[r].startTree
            /\ cyc[r].setHead = "none"
            /\ cyc[r].checkout = "none"
            /\ cyc[r].hook = "none"

C6_Witness ==
    \E r \in Repos :
        /\ pc[r] = "ret_err"
        /\ cyc[r].fetched = "failed"
        /\ cycles[r] = 2
        /\ remote[r] # head[r]

\* ------------------------------------------------------------------- C7
\* C7: within one repository the hook never runs while the supervisor is
\* anywhere but waiting for it: no fetch, reset, sleep or new cycle of the
\* same repository overlaps a running hook.
C7_CyclesSequential ==
    \A r \in Repos : hookRunning[r] => pc[r] \in {"hook_wait", "killed"}

\* The hook of one repository runs while another repository is fetching.
C7_Witness ==
    \E r, s \in Repos :
        /\ r # s
        /\ hookRunning[r] /\ pc[r] = "hook_wait"
        /\ pc[s] = "fetch"

\* ------------------------------------------------------------------- C8
\* C8: a hook that ran and ended with a non-zero status does not make the
\* cycle fail: try_update returns Ok and the supervisor goes on to sleep.
C8_NonZeroHookIsSuccess ==
    \A r \in Repos :
        (cyc[r].hook = "started" /\ ~hookRunning[r] /\ cyc[r].exit # 0) =>
            pc[r] \in {"hook_wait", "ret_ok", "sleep", "update", "killed"}

C8_Witness ==
    \E r \in Repos :
        /\ pc[r] = "sleep"
        /\ cyc[r].hook = "started"
        /\ cyc[r].exit = 1

\* ------------------------------------------------------------------- C9
\* C9: a failure to launch the hook shell is never promoted to a cycle
\* failure: the cycle does not return an error and the supervisor lives on.
C9_SpawnErrorNotPromoted ==
    \A r \in Repos :
        cyc[r].hook = "spawn_failed" => pc[r] \notin {"ret_err", "exit"}

\* ------------------------------------------------------------------ C10
\* The supervisor is inside try_update or holds its result.
InCycle(r) ==
    pc[r] \in {"open", "fetch", "get_heads", "set_head", "checkout", "hook",
               "hook_wait", "ret_ok", "ret_err"}

\* C10: cycles and sleeps alternate, the first cycle comes first: inside the
\* n-th cycle exactly n-1 sleeps have been started, after it exactly n, and
\* every sleep lasts the configured interval, read once from the RepoCfg.
C10_SyncSleepAlternate ==
    \A r \in Repos :
        /\ InCycle(r) => sleeps[r] = cycles[r] - 1
        /\ pc[r] \in {"sleep", "update"} => sleeps[r] = cycles[r]
        /\ sleeps[r] > 0 => lastSleep[r] = cfg[r].interval
        /\ pc[r] \in {"sleep", "update"} \/ InCycle(r) => interval[r] = cfg[r].interval

C10_Witness ==
    \E r \in Repos :
        /\ pc[r] = "open"
        /\ cycles[r] = 2
        /\ sleeps[r] = 1
        /\ lastSleep[r] = 1

\* ------------------------------------------------------------------ C11
\* C11: after a cancellation signal a cycle that is in flight is allowed to
\* finish its fetch, reset and hook (no cycle is cut short), and no new
\* cycle starts afterwards.
C11_InFlightCycleFinishes ==
    main.exitCode = SignalExit =>
        /\ main.cutShort = {}
        /\ \A r \in Repos : pc[r] \notin MidCycle

\* ------------------------------------------------------------------ C15
\* C15: a cycle on a repository that is up to date (the fetch brings the
\* commit HEAD was at when the cycle began) returns no-change, and so does
\* the cycle after it: HEAD and the working tree stay, no hook starts.
C15_UpToDateIsNoChange ==
    \A r \in Repos :
        (Compared(r) /\ fetchHead[r] = cyc[r].startHead) =>
            /\ pc[r] \in {"ret_ok", "sleep", "update", "killed"}
            /\ cyc[r].cmp = "eq"
            /\ head[r] = cyc[r].startHead
            /\ worktree[r] = cyc[r].startTree
            /\ cyc[r].hook = "none"

\* The second of two cycles on a remote that never moved.
C15_Witness ==
    \E r \in Repos :
        /\ cycles[r] = 2
        /\ hist[r].advances = 0
        /\ pc[r] = "ret_ok"
        /\ Compared(r)
        /\ head[r] = StartCommit
        /\ cfg[r].on_change = HookCmd
        /\ hist[r].hooks = 0

\* ------------------------------------------------------------------ C16
\* C16: a configuration entry whose path is not a git working copy with a
\* remote "origin" is rejected at load time: with such an entry main never
\* gets to the watcher, no supervisor is spawned and no cycle runs.
C16_BadPathRejectedAtLoad ==
    (\E r \in Repos : ~cfg[r].pathOk) =>
        /\ main.pc # "watch"
        /\ spawned = 0
        /\ \A s \in Repos : cycles[s] = 0

\* ------------------------------------------------------------------ C17
\* C17: when the configuration file is missing or malformed no supervisor
\* is started, no cycle ever runs, and the process ends with a non-zero code.
C17_NoConfigNoWatcher ==
    main.cfgFile # "ok" =>
        /\ main.pc # "watch"
        /\ spawned = 0
        /\ \A r \in Repos : pc[r] \in {"unspawned", "killed"} /\ cycles[r] = 0
        /\ main.pc # "load" => (exited /\ main.exitCode \notin {-1, 0})

C17_Witness ==
    /\ main.cfgFile = "malformed"
    /\ main.pc = "exit"
    /\ main.exitCode = 1

\* ------------------------------------------------------------------ C18
\* C18: in a fast-forwarding cycle HEAD is set first, the working tree is
\* checked out next, and the hook is launched only after both succeeded; a
\* failure of either step leaves the cycle without a hook.
C18_ResetBeforeHook ==
    \A r \in Repos :
        /\ cyc[r].checkout # "none" =>
               (cyc[r].setHead = "ok" /\ head[r] = fetch_head[r])
        /\ cyc[r].hook # "none" =>
               /\ cyc[r].setHead = "ok" /\ cyc[r].checkout = "ok"
               /\ head[r] = fetch_head[r] /\ worktree[r] = fetch_head[r]
        /\ (cyc[r].setHead = "failed" \/ cyc[r].checkout = "failed") =>
               (cyc[r].hook = "none" /\ pc[r] \notin {"hook", "hook_wait", "ret_ok"})

C18_Witness ==
    \E r \in Repos :
        /\ pc[r] = "hook_wait"
        /\ hookRunning[r]
        /\ head[r] # cyc[r].startHead
        /\ worktree[r] = head[r]

\* ------------------------------------------------------------------ C19
\* C19: once a cycle has returned, with Ok or with an error, the working
\* tree holds the commit HEAD points at.
C19_TreeMatchesHead ==
    \A r \in Repos :
        pc[r] \in {"ret_ok", "ret_err", "sleep", "update", "exit"} =>
            worktree[r] = head[r]

\* ------------------------------------------------------------------ C20
\* C20: the hook starts at most once for each advance of the remote: a
\* repository never has more hooks started than advances of its remote, and
\* a cycle that starts a hook fetched a commit HEAD was not at.
C20_HookOncePerAdvance ==
    \A r \in Repos :
        /\ hist[r].hooks <= hist[r].advances
        /\ cyc[r].hook = "started" => fetch_head[r] # cyc[r].startHead

\* The cycle after a fast-forward, the remote not having moved again.
C20_Witness ==
    \E r \in Repos :
        /\ cycles[r] = 2
        /\ hist[r].advances = 1
        /\ hist[r].hooks = 1
        /\ pc[r] = "ret_ok"
        /\ Compared(r)
        /\ cyc[r].hook = "none"

\* ------------------------------------------------------------------ C21
\* A step of the task of r: the supervisor's loop, try_update inside it and
\* the child process the hook waits for.
TaskStep(r) ==
    \/ WatchSingleRepo(r)
    \/ BeginUpdate(r)
    \/ Open(r)
    \/ FetchOk(r)
    \/ FetchFail(r)
    \/ GetHeads(r)
    \/ SetHeadDetached(r)
    \/ CheckoutHead(r)
    \/ NoHookConfigured(r)
    \/ HookSpawn(r)
    \/ HookSpawnFail(r)
    \/ HookExit(r)
    \/ HookWait(r)
    \/ HandleOk(r)
    \/ HandleErr(r)
    \/ Wake(r)

\* The runtime of #[tokio::main] runs main and polls every spawned task that
\* can go on; a sleep ends.  Which way a fallible call goes is not a matter
\* of scheduling: fairness is on the task's step, not on its outcome.
LiveSpec ==
    /\ Init
    /\ [][Next]_vars
    /\ WF_vars(LoadConfig)
    /\ WF_vars(Spawn)
    /\ \A r \in Repos : WF_vars(TaskStep(r))

\* The remote of r is at c and no push is left; the supervisor of r is at
\* the top of its loop with a cycle still to run.
Settled(r, c) ==
    /\ remote[r] = c
    /\ pushes = MaxPushes
    /\ ~exited
    /\ pc[r] = "update"
    /\ cycles[r] < MaxCycles

\* Nothing but a fetch ever fails, in any repository.
OnlyFetchesFail == \A s \in Repos : cyc[s].err \in {"none"} \cup FetchErrors

\* C21: once the remote of a repository has stopped advancing at commit c,
\* if from some point on no fetch fails (and no signal ends the daemon and
\* nothing but fetches fails), then under fair scheduling the HEAD of that
\* repository eventually equals c and stays equal to c.
C21_HeadReachesRemoteTip ==
    \A r \in Repos : \A c \in Commits :
        ( /\ [](main.exitCode # SignalExit)
          /\ []OnlyFetchesFail
          /\ <>[][\A s \in Repos : ~FetchFail(s)]_vars )
        => (Settled(r, c) ~> [](head[r] = c))

\* ------------------------------------------------ the credentials callback
Err(m) == [NoResult EXCEPT !.msg = m]

\* let username = username_from_url.unwrap_or(&credentials.username);
\* Cred::userpass_plaintext(username, &credentials.password)
UserPass(username_from_url, credentials) ==
    [ok |-> TRUE, kind |-> "userpass",
     username |-> UnwrapOr(username_from_url, credentials.username),
     password |-> credentials.password, key |-> 0, msg |-> "none"]

\* The callback of watcher.rs: the credentials file, whatever the URL.
WatcherCallback(c) ==
    LET read == read_git_credentials(c.store) IN
    [c EXCEPT !.pc = "done",
              !.result =
                  IF read.kind = "Some"
                    THEN UserPass(c.url.username_from_url, UnwrapOr(read.cred, NoResult))
                  ELSE IF read.kind = "None" THEN Err("NoValidCredentials")
                  ELSE Err(read.kind)]

WatcherCredentials ==
    /\ cr.pc = "ready"
    /\ cr.variant = "watcher"
    /\ cr' = WatcherCallback(cr)

\* url.starts_with("git@") || url.starts_with("ssh://")
IsSshUrl(url) ==
    \/ StartsWith(url, GitUser \o <<"@">>)
    \/ StartsWith(url, <<"s", "s", "h">> \o SchemeSep)

\* The first default key file that exists and that Cred::ssh_key accepts.
FirstKey(keys) ==
    LET usable == {k \in KeyPaths : keys[k] = "ok"}
    IN  IF usable = {} THEN 0 ELSE CHOOSE k \in usable : \A j \in usable : k <= j

\* No SSH method is left: the callback gives up with an error.
SshFallback_Exhausted(c) == [c EXCEPT !.pc = "done", !.result = Err("AuthExhausted")]

\* "If SSH authentication fails, fall back to git-credentials"
SshFallback(c) == [c EXCEPT !.pc = "https"]

\* The callback of git_ops.rs: agent, then key files, then the file.
GitOpsCredentials ==
    /\ cr.pc = "ready"
    /\ cr.variant = "git_ops"
    /\ LET user == UnwrapOr(cr.url.username_from_url, GitUser) IN
       IF IsSshUrl(cr.url.text)
         THEN IF cr.agent
                THEN cr' = [cr EXCEPT !.pc = "done",
                               !.result = [NoResult EXCEPT !.ok = TRUE,
                                   !.kind = "ssh_agent", !.username = user]]
              ELSE IF FirstKey(cr.keys) # 0
                THEN cr' = [cr EXCEPT !.pc = "done",
                               !.result = [NoResult EXCEPT !.ok = TRUE,
                                   !.kind = "ssh_key", !.username = user,
                                   !.key = FirstKey(cr.keys)]]
              ELSE cr' = SshFallback(cr)
         ELSE cr' = [cr EXCEPT !.pc = "https"]

\* The user is asked whether the file holds valid credentials or not.
NeedsPrompt_Always(read) == TRUE

\* Ok(None) and Err(FileNotFound) lead to prompt_and_create_credentials.
NeedsPrompt(read) == read.kind \in {"None", "FileNotFound"}

\* handle_https_credentials
HandleHttpsCredentials ==
    /\ cr.pc = "https"
    /\ LET read == read_git_credentials(cr.store) IN
       IF NeedsPrompt(read)
         THEN cr' = [cr EXCEPT !.pc = "prompt", !.prompted = TRUE]
       ELSE IF read.kind = "Some"
         THEN cr' = [cr EXCEPT !.pc = "done",
                        !.result = UserPass(cr.url.username_from_url,
                                            UnwrapOr(read.cred, NoResult))]
       ELSE cr' = [cr EXCEPT !.pc = "done", !.result = Err("ReadError")]

\* format!("https://{}:{}@github.com\n", username, token)
WrittenLine(user, token) ==
    <<"h", "t", "t", "p", "s">> \o SchemeSep \o user \o <<":">> \o token
        \o <<"@", "g", "i", "t", "h", "u", "b", ".", "c", "o", "m">>

\* prompt_and_create_credentials: fs::write replaces the file once the user
\* has said yes and typed a username and a token; set_permissions follows.
PromptAndCreateCredentials ==
    /\ cr.pc = "prompt"
    /\ LET failed == IF cr.store.state = "missing" THEN "CreateFailed"
                     ELSE "PromptFailed"
           written == File(<<WrittenLine(TypedUser, TypedToken)>>)
       IN  IF cr.prompt \in {"declined", "empty_user", "empty_token", "write_failed"}
             THEN cr' = [cr EXCEPT !.pc = "done", !.result = Err(failed)]
           ELSE IF cr.prompt = "chmod_failed"
             THEN cr' = [cr EXCEPT !.pc = "done", !.store = written,
                            !.result = Err(failed)]
           ELSE cr' = [cr EXCEPT !.pc = "done", !.store = written,
                          !.result = UserPass(cr.url.username_from_url,
                              [username |-> TypedUser, password |-> TypedToken])]

daemonVars == <<cfg, spawned, exited, pc, interval, remote, head, detached,
                branchTip, worktree, fetchHead, fetch_head, local_head,
                hookRunning, cycles, sleeps, lastSleep, pushes, cyc, main, hist>>

\* One run of a credentials callback on drawn inputs; the daemon stands still.
CredInit ==
    /\ DaemonInit
    /\ cfg = [r \in Repos |-> [pathOk |-> TRUE, interval |-> default_interval,
                               on_change |-> NoHook]]
    /\ main.cfgFile = "ok"
    /\ CredStart(cr)

CredNext ==
    /\ \/ WatcherCredentials
       \/ GitOpsCredentials
       \/ HandleHttpsCredentials
       \/ PromptAndCreateCredentials
    /\ UNCHANGED daemonVars

CredSpec == CredInit /\ [][CredNext]_vars

\* ------------------------------------------------------------------ C12
\* No SSH credential can be made: no agent, no usable key file.
NoSshMethod == ~cr.agent /\ FirstKey(cr.keys) = 0

\* The credentials file is missing or holds no valid line.
StoreGivesNone == read_git_credentials(cr.store0).kind \in {"FileNotFound", "None"}

HostOf(line) ==
    LET part == UnwrapOr(SplitNth1(line), <<>>)
        at_pos == Find(part, <<"@">>)
    IN  SubSeq(part, at_pos + 1, Len(part))

\* The first line, in file order, that is not empty, not a comment, is
\* syntactically valid and names the given host.
RECURSIVE FirstForHost(_, _, _)
FirstForHost(lines, i, host) ==
    IF i > Len(lines) THEN None
    ELSE LET line == Trim(lines[i])
             c == parse_git_credential_line(line)
         IN  IF line # <<>> /\ ~StartsWith(line, <<"#">>) /\ c # None
                /\ HostOf(line) = host
               THEN c
               ELSE FirstForHost(lines, i + 1, host)

\* C14: reading the credentials file skips empty and '#' lines and yields
\* the credentials of the first valid line whose host is the host of the
\* remote being fetched.
C14_FirstLineForHost ==
    (cr.pc = "done" /\ cr.variant = "watcher" /\ cr.store0.state = "file") =>
        LET want == FirstForHost(cr.store0.lines, 1, cr.url.host) IN
        IF want = None THEN ~cr.result.ok
        ELSE /\ cr.result.ok
             /\ cr.result.password = UnwrapOr(want, NoResult).password

\* ------------------------------------------------------------------ C22
\* C22: when the credentials come from the credentials file, the username
\* sent is the one of the file's line; the username embedded in the remote
\* URL does not replace it.
C22_FileUsernameFirst ==
    (cr.pc = "done" /\ ~cr.prompted /\ cr.result.kind = "userpass") =>
        LET read == read_git_credentials(cr.store0)
        IN  /\ read.kind = "Some"
            /\ cr.result.username = UnwrapOr(read.cred, NoResult).username

====
